---- MODULE Spec2Model ----
(***************************************************************************)
(* The session progression engine of SLAITED (chat/views.py and            *)
(* chat/ai_utils.py): the handlers start_session, student_response and     *)
(* advance_phase acting on one StudentInteractionSession row and on its    *)
(* Message rows.  The generation collaborator (call_model) and the         *)
(* judgment collaborator (the chat completion inside                       *)
(* evaluate_skill_mastery) are inputs of the handlers: what they return,   *)
(* or that they raise, is chosen by the environment.                       *)
(*                                                                         *)
(* Python indices are 0-based and kept so (source_index, skill_index);     *)
(* TLA+ sequences are 1-based, hence skills[skill_index + 1].              *)
(* Texts are sequences of characters.                                      *)
(***************************************************************************)
EXTENDS Integers, Sequences, FiniteSets, TLC

\* ------------------------------------------------------------------ bounds
MaxSources == 2
MaxSkills == 2
\* Message rows of a session, under Spec
MaxMessages == 4
\* Message rows of a session, under SpecFaults
MaxFaultMessages == 3
\* Message rows of a session, under SpecDialogue
MaxTurns == 7
\* call_model calls that raise, under SpecFaults
MaxFailures == 1
\* Message rows of a session, under SpecConcurrent
MaxRaceMessages == 5
\* Utterances of one skill-attempt, under SpecLive
MaxUtterances == 2
\* Refused advances of a session, under SpecLive
MaxRefusals == 2

\* --------------------------------------------------------------- constants
\* views.py:255  get_recent_conversation_excerpt(session, num_exchanges=4)
NumExchanges == 4
\* ai_utils.py:380  if q_count >= 4
WrapUpThreshold == 4
\* dict.get(...) of a key the request JSON does not hold (None)
NoIndex == -1

\* The skill names known to the front end (views.py skill_definitions).
SkillNames ==
    <<"Comprehension", "Sourcing", "Contextualization", "Claim/Evidence", "Evaluation">>

\* models.py 55-59 StudentProficiencies, and the field's default (models.py 66)
StudentProficiencies == {"beginner", "intermediate", "advanced"}
DefaultProficiency == "beginner"

\* ------------------------------------------------------------------- texts
Whitespace == {" "}

\* What a student may post as 'message' (before .strip()).
RawMessages == {<<>>, <<" ">>, <<"a">>, <<" ", "a", " ">>}

\* What call_model may return: a statement, or a question.
Question == <<"x", "?">>
AIOutputs == {<<"x">>, Question}

\* call_model raising (timeout, quota, transport).
GenerationError == <<"GenerationError">>

\* The judgment collaborator's JSON verdicts, and its payload failing json.loads.
JudgeVerdicts ==
    { [is_mastered |-> TRUE, reasoning |-> "strong"],
      [is_mastered |-> FALSE, reasoning |-> "weak"] }
JudgmentError == [is_mastered |-> FALSE, reasoning |-> "JudgmentError"]
\* A payload that parses but is not a verdict (a JSON object without the two
\* keys), as its readers see it: .get("is_mastered", False), .get("reasoning", "").
MalformedVerdict == [is_mastered |-> FALSE, reasoning |-> ""]
JudgeOutcomes == JudgeVerdicts \cup {MalformedVerdict, JudgmentError}

RECURSIVE LStrip(_)
LStrip(s) ==
    IF s # <<>> /\ Head(s) \in Whitespace THEN LStrip(Tail(s)) ELSE s

RECURSIVE RStrip(_)
RStrip(s) ==
    IF s # <<>> /\ s[Len(s)] \in Whitespace
    THEN RStrip(SubSeq(s, 1, Len(s) - 1))
    ELSE s

\* str.strip()
Strip(s) == RStrip(LStrip(s))

\* "?" in ai_response
HasQuestionMark(s) == \E i \in 1..Len(s) : s[i] = "?"

\* request["message"]: None, or a text (possibly empty).
NoneMessage == [present |-> FALSE, text |-> <<>>]
SomeMessage(t) == [present |-> TRUE, text |-> t]
\* Python truthiness of request.get('message')
Truthy(m) == m.present /\ m.text # <<>>

AttemptedToAdvance == <<"[Attempted to advance]">>

VARIABLES
    skills,              \* assignment.requirement.skills_to_target
    sources,             \* assignment.sources
    student_proficiency, \* assignment.requirement.student_proficiency
    started,             \* the session row exists
    session_data,        \* StudentInteractionSession.session_data
    messages,            \* the session's Message rows, by created_at
    last,                \* what the last handler call did and returned
    failures,            \* how many call_model calls have raised so far
    in_flight            \* two requests being served at once, and their locals

vars ==
    <<skills, sources, student_proficiency, started, session_data, messages, last,
      failures, in_flight>>

assignment == <<skills, sources, student_proficiency>>

\* ----------------------------------------------------------- session_data
\* session_data as start_session creates it; questions_asked_this_skill is
\* absent there and read everywhere with .get(..., 0).
InitialSessionData ==
    [ current_phase |-> "intro",
      source_index |-> 0,
      skill_index |-> 0,
      skill_evidence |-> <<>>,
      questions_asked_this_skill |-> 0 ]

\* key = f"{source_index}_{skill_index}"
Key(source_index, skill_index) == <<source_index, skill_index>>

\* A variant of GetEvidence that, for a key with no list yet, falls back to
\* the utterances recorded under another key.
GetEvidenceOfAnyKey(sd, key) ==
    IF key \in DOMAIN sd.skill_evidence THEN sd.skill_evidence[key]
    ELSE IF DOMAIN sd.skill_evidence = {} THEN <<>>
    ELSE sd.skill_evidence[CHOOSE k \in DOMAIN sd.skill_evidence : TRUE]

\* session_data.get("skill_evidence", {}).get(key, [])
GetEvidence(sd, key) ==
    IF key \in DOMAIN sd.skill_evidence THEN sd.skill_evidence[key] ELSE <<>>

\* A Message row: request = {message, phase[, source_index, skill_index]},
\* response = {message}.
NewMessage(message, phase, source_index, skill_index, response) ==
    [ message |-> message,
      phase |-> phase,
      source_index |-> source_index,
      skill_index |-> skill_index,
      response |-> response ]

\* ------------------------------------------------------- History Windower
\* The user/assistant pairs of the given Message rows (ai_utils.py 277-294):
\* a falsy user content (None or "") and a falsy assistant content are omitted.
RECURSIVE OpenAIFormat(_)
OpenAIFormat(msgs) ==
    IF msgs = <<>> THEN <<>>
    ELSE LET msg == Head(msgs)
             user == IF Truthy(msg.message)
                     THEN <<[role |-> "user", content |-> msg.message.text]>>
                     ELSE <<>>
             assistant == IF msg.response # <<>>
                          THEN <<[role |-> "assistant", content |-> msg.response]>>
                          ELSE <<>>
         IN  user \o assistant \o OpenAIFormat(Tail(msgs))

\* A variant of SkillStartMatches that takes any introduction of a
\* skill-attempt for that of the current one (the tags are not compared).
SkillStartMatchesAnyIndices(sd, msgs) ==
    { i \in 1..Len(msgs) :
        /\ msgs[i].phase = "source_loop"
        /\ ~msgs[i].message.present }

\* The rows that introduce the current skill-attempt: a phase transition with
\* no user message, tagged with the current indices (ai_utils.py 266-269).
SkillStartMatches(sd, msgs) ==
    { i \in 1..Len(msgs) :
        /\ msgs[i].phase = "source_loop"
        /\ ~msgs[i].message.present
        /\ msgs[i].source_index = sd.source_index
        /\ msgs[i].skill_index = sd.skill_index }

\* skill_start_index: the first match of the scan (it breaks there); 0 for None.
SkillStartIndex(sd, msgs) ==
    LET matches == SkillStartMatches(sd, msgs)
    IN  IF matches = {} THEN 0
        ELSE CHOOSE i \in matches : \A j \in matches : i <= j

\* A variant of HistoryRows that keeps the rows up to the introduction of
\* the current skill-attempt instead of the rows from it on.
HistoryRowsBeforeSkillStart(sd, msgs, limit_to_current_skill) ==
    IF limit_to_current_skill /\ sd.current_phase = "source_loop"
       /\ SkillStartIndex(sd, msgs) # 0
    THEN SubSeq(msgs, 1, SkillStartIndex(sd, msgs))
    ELSE msgs

\* The rows build_conversation_history formats.
HistoryRows(sd, msgs, limit_to_current_skill) ==
    IF limit_to_current_skill /\ sd.current_phase = "source_loop"
       /\ SkillStartIndex(sd, msgs) # 0
    THEN SubSeq(msgs, SkillStartIndex(sd, msgs), Len(msgs))
    ELSE msgs

build_conversation_history(sd, msgs, limit_to_current_skill) ==
    OpenAIFormat(HistoryRows(sd, msgs, limit_to_current_skill))

\* The parts of one row in the excerpt: "AI: ..." then "Student: ...".
ExcerptParts(msg) ==
    (IF msg.response # <<>>
     THEN <<[speaker |-> "AI", content |-> msg.response]>> ELSE <<>>)
    \o
    (IF Truthy(msg.message)
     THEN <<[speaker |-> "Student", content |-> msg.message.text]>> ELSE <<>>)

RECURSIVE ExcerptOf(_)
ExcerptOf(msgs) ==
    IF msgs = <<>> THEN <<>> ELSE ExcerptParts(Head(msgs)) \o ExcerptOf(Tail(msgs))

\* The last num_exchanges * 2 rows in chronological order; <<>> stands for
\* None (an empty excerpt is None, and the gate tests only its truthiness).
get_recent_conversation_excerpt(msgs, num_exchanges) ==
    LET n == Len(msgs)
        first == IF n > num_exchanges * 2 THEN n - num_exchanges * 2 + 1 ELSE 1
    IN  ExcerptOf(SubSeq(msgs, first, n))

\* ------------------------------------------------------- Context Composer
\* should_include_context: 'context' in skill.lower() or 'sourcing' in it.
should_include_context(skill) == skill \in {"Contextualization", "Sourcing"}

\* The [YOUR TASK] part of the session context (ai_utils.py 331-394).
ContextTask(sd, is_phase_transition) ==
    IF sd.current_phase = "intro" THEN "intro_guidance"
    ELSE IF sd.current_phase # "source_loop" THEN "none"
    ELSE IF sd.source_index >= Len(sources) THEN "all_sources_complete"
    ELSE IF sd.skill_index >= Len(skills) THEN "error_skill_index_out_of_bounds"
    ELSE IF is_phase_transition
         THEN (IF sd.skill_index = 0 THEN "introduce_new_source"
               ELSE "introduce_new_skill")
         ELSE "continue_guiding"

\* The wrap-up guidance (ai_utils.py 378-392).
WrapUp(sd, is_phase_transition) ==
    /\ ContextTask(sd, is_phase_transition) = "continue_guiding"
    /\ sd.questions_asked_this_skill >= WrapUpThreshold

\* build_session_context: the lines it renders, as a record.  internal_note
\* is what a caller appends to the rendered text afterwards (none here).
build_session_context(sd, is_phase_transition) ==
    LET task == ContextTask(sd, is_phase_transition)
        in_task == task \in {"introduce_new_source", "introduce_new_skill",
                             "continue_guiding"}
    IN  [ student_proficiency |-> student_proficiency,
          phase |-> sd.current_phase,
          task |-> task,
          source_index |-> IF in_task THEN sd.source_index ELSE NoIndex,
          skill |-> IF in_task THEN skills[sd.skill_index + 1] ELSE "",
          q_count |-> IF task = "continue_guiding"
                      THEN sd.questions_asked_this_skill ELSE NoIndex,
          wrap_up |-> WrapUp(sd, is_phase_transition),
          internal_note |-> "" ]

\* One call of call_model, as the collaborator sees it.
GenerationCall(messages_history, include_skills, include_context, session_context) ==
    [ messages_history |-> messages_history,
      include_skills |-> include_skills,
      include_context |-> include_context,
      session_context |-> session_context ]

\* ------------------------------------------------------------ Mastery Gate
\* A variant of evaluate_skill_mastery without the guard on empty evidence.
evaluate_skill_mastery_unguarded(skill, proficiency, evidence, conversation_excerpt, judge) ==
    [ is_mastered |-> judge # JudgmentError /\ judge.is_mastered,
      reasoning |-> judge.reasoning,
      raised |-> judge = JudgmentError,
      judge_prompts |-> << [ skill |-> skill,
                             proficiency |-> proficiency,
                             evidence |-> evidence,
                             excerpt |-> conversation_excerpt ] >> ]

\* evaluate_skill_mastery (ai_utils.py 147-229); judge is what the judgment
\* collaborator answers if it is asked.  judge_prompts holds the prompts sent
\* to the collaborator (none, or one); raised: json.loads failed on its answer.
evaluate_skill_mastery(skill, proficiency, evidence, conversation_excerpt, judge) ==
    IF evidence = <<>>
    THEN [ is_mastered |-> FALSE,
           reasoning |-> "No evidence yet",
           raised |-> FALSE,
           judge_prompts |-> <<>> ]
    ELSE [ is_mastered |-> judge # JudgmentError /\ judge.is_mastered,
           reasoning |-> judge.reasoning,
           raised |-> judge = JudgmentError,
           judge_prompts |-> << [ skill |-> skill,
                                  proficiency |-> proficiency,
                                  evidence |-> evidence,
                                  excerpt |-> conversation_excerpt ] >> ]

\* One consultation of the Mastery Gate: its arguments and its result.
GateCall(skill, proficiency, evidence, conversation_excerpt, judge) ==
    [ skill |-> skill,
      proficiency |-> proficiency,
      evidence |-> evidence,
      conversation_excerpt |-> conversation_excerpt,
      result |-> evaluate_skill_mastery(skill, proficiency, evidence,
                                        conversation_excerpt, judge) ]

\* ------------------------------------------------------------ observations
\* The JsonResponse of a handler (the fields the claims read); NoResponse when
\* the handler raised.
NoResponse ==
    [ blocked |-> FALSE, complete |-> FALSE, next_phase |-> "",
      current_skill |-> "", ai_message |-> <<>> ]

\* What one handler call did: the handler, how it ended, the Mastery Gate's
\* result (a sequence of at most one), the generation calls it issued and
\* the response it returned.
Observation(op, result, gate, generation_calls, response) ==
    [ op |-> op, result |-> result, gate |-> gate,
      generation_calls |-> generation_calls, response |-> response ]

Outcome(sd, msgs, obs) == [ session_data |-> sd, messages |-> msgs, last |-> obs ]

\* ---------------------------------------------------------- start_session
\* views.py 120-165: the session row is created, then the welcome is
\* generated and stored.
StartSession(gen) ==
    LET sd == InitialSessionData
        call == GenerationCall(<<>>, FALSE, FALSE, build_session_context(sd, FALSE))
    IN  IF gen = GenerationError
        THEN Outcome(sd, <<>>,
                 Observation("start_session", "generation_error", <<>>, <<call>>, NoResponse))
        ELSE Outcome(sd, <<NewMessage(NoneMessage, "intro", NoIndex, NoIndex, gen)>>,
                 Observation("start_session", "ok", <<>>, <<call>>,
                     [NoResponse EXCEPT !.ai_message = gen]))

\* ------------------------------------------------------- student_response
\* A variant of RecordEvidence that keeps only the latest utterance of a
\* skill-attempt.
RecordEvidenceReplacing(sd, student_message) ==
    IF sd.current_phase = "source_loop" /\ student_message # <<>>
    THEN LET key == Key(sd.source_index, sd.skill_index)
         IN  [sd EXCEPT !.skill_evidence =
                 [k \in DOMAIN @ \cup {key} |->
                     IF k = key THEN <<student_message>> ELSE @[k]]]
    ELSE sd

\* A variant of RecordEvidence that records the utterances of every phase,
\* those said during the intro and after completion included.
RecordEvidenceInEveryPhase(sd, student_message) ==
    IF student_message # <<>>
    THEN LET key == Key(sd.source_index, sd.skill_index)
             evidence == IF key \in DOMAIN sd.skill_evidence
                         THEN sd.skill_evidence
                         ELSE sd.skill_evidence @@ (key :> <<>>)
         IN  [sd EXCEPT !.skill_evidence =
                 [evidence EXCEPT ![key] = Append(@, student_message)]]
    ELSE sd

\* views.py 44-55: the utterance is appended to the evidence of the current
\* skill-attempt and the session is saved.
RecordEvidence(sd, student_message) ==
    IF sd.current_phase = "source_loop" /\ student_message # <<>>
    THEN LET key == Key(sd.source_index, sd.skill_index)
             evidence == IF key \in DOMAIN sd.skill_evidence
                         THEN sd.skill_evidence
                         ELSE sd.skill_evidence @@ (key :> <<>>)
         IN  [sd EXCEPT !.skill_evidence =
                 [evidence EXCEPT ![key] = Append(@, student_message)]]
    ELSE sd

\* A variant of CountQuestion that lets the question count move the session on:
\* the next skill is entered when the counter reaches the wrap-up threshold.
CountQuestionAdvancing(sd, current_phase, ai_response) ==
    IF current_phase = "source_loop" /\ HasQuestionMark(ai_response)
    THEN IF sd.questions_asked_this_skill + 1 >= WrapUpThreshold
            /\ sd.skill_index + 1 < Len(skills)
         THEN [sd EXCEPT !.questions_asked_this_skill = 0, !.skill_index = @ + 1]
         ELSE [sd EXCEPT !.questions_asked_this_skill = @ + 1]
    ELSE sd

\* A variant of CountQuestion that counts the questions of every phase, those
\* asked during the intro included.
CountQuestionInEveryPhase(sd, current_phase, ai_response) ==
    IF HasQuestionMark(ai_response)
    THEN [sd EXCEPT !.questions_asked_this_skill = @ + 1]
    ELSE sd

\* views.py 98-105: the question counter, saved before the Message row.
CountQuestion(sd, current_phase, ai_response) ==
    IF current_phase = "source_loop" /\ HasQuestionMark(ai_response)
    THEN [sd EXCEPT !.questions_asked_this_skill = @ + 1]
    ELSE sd

\* A variant of StudentResponse that stores an empty utterance as no student
\* input (message or None).
StudentResponseNullingEmpty(sd, msgs, raw_message, gen) ==
    LET student_message == Strip(raw_message)
        current_phase == sd.current_phase
        sd1 == RecordEvidence(sd, student_message)
        history == Append(build_conversation_history(sd1, msgs, TRUE),
                          [role |-> "user", content |-> student_message])
        call == GenerationCall(history, TRUE, TRUE, build_session_context(sd1, FALSE))
    IN  Outcome(CountQuestion(sd1, current_phase, gen),
            Append(msgs, NewMessage(IF student_message = <<>> THEN NoneMessage
                                    ELSE SomeMessage(student_message),
                                    current_phase, NoIndex, NoIndex, gen)),
            Observation("student_response", "ok", <<>>, <<call>>,
                [NoResponse EXCEPT !.ai_message = gen]))

\* views.py 22-116.
StudentResponse(sd, msgs, raw_message, gen) ==
    LET student_message == Strip(raw_message)
        current_phase == sd.current_phase
        sd1 == RecordEvidence(sd, student_message)
        history == Append(build_conversation_history(sd1, msgs, TRUE),
                          [role |-> "user", content |-> student_message])
        call == GenerationCall(history, TRUE, TRUE, build_session_context(sd1, FALSE))
    IN  IF gen = GenerationError
        THEN Outcome(sd1, msgs,
                 Observation("student_response", "generation_error", <<>>, <<call>>,
                     NoResponse))
        ELSE Outcome(CountQuestion(sd1, current_phase, gen),
                 Append(msgs, NewMessage(SomeMessage(student_message), current_phase,
                                         NoIndex, NoIndex, gen)),
                 Observation("student_response", "ok", <<>>, <<call>>,
                     [NoResponse EXCEPT !.ai_message = gen]))

\* ---------------------------------------------------------- advance_phase
\* A variant of AdvanceFromIntro that replays the session so far to the
\* generation collaborator instead of an empty window.
AdvanceFromIntroReplaying(sd, msgs, gen) ==
    LET sd1 == [sd EXCEPT !.current_phase = "source_loop",
                          !.source_index = 0,
                          !.skill_index = 0]
        call == GenerationCall(build_conversation_history(sd1, msgs, FALSE), TRUE,
                               skills # <<>> /\ should_include_context(skills[1]),
                               build_session_context(sd1, TRUE))
    IN  Outcome(sd1,
            Append(msgs, NewMessage(NoneMessage, "source_loop", 0, 0, gen)),
            Observation("advance_phase", "begin", <<>>, <<call>>,
                [NoResponse EXCEPT !.next_phase = "source_loop",
                                   !.current_skill =
                                       IF skills # <<>> THEN skills[1] ELSE "Unknown",
                                   !.ai_message = gen]))

\* views.py 185-237: intro -> source_loop.
AdvanceFromIntro(sd, msgs, gen) ==
    LET sd1 == [sd EXCEPT !.current_phase = "source_loop",
                          !.source_index = 0,
                          !.skill_index = 0]
        include_context == IF skills # <<>> THEN should_include_context(skills[1])
                           ELSE FALSE
        call == GenerationCall(<<>>, TRUE, include_context,
                               build_session_context(sd1, TRUE))
        current_skill == IF skills # <<>> THEN skills[1] ELSE "Unknown"
    IN  IF gen = GenerationError
        THEN Outcome(sd1, msgs,
                 Observation("advance_phase", "generation_error", <<>>, <<call>>,
                     NoResponse))
        ELSE Outcome(sd1,
                 Append(msgs, NewMessage(NoneMessage, "source_loop", 0, 0, gen)),
                 Observation("advance_phase", "begin", <<>>, <<call>>,
                     [NoResponse EXCEPT !.next_phase = "source_loop",
                                        !.current_skill = current_skill,
                                        !.ai_message = gen]))

\* A variant of BlockedSessionData that counts the guidance turn's question
\* as a content turn does.
BlockedSessionDataCounting(sd, ai_followup) ==
    IF HasQuestionMark(ai_followup)
    THEN [sd EXCEPT !.questions_asked_this_skill = @ + 1]
    ELSE sd

\* views.py 282-294: what the blocked path saves of the session after the
\* guidance turn is generated (nothing: only the Message row is created).
BlockedSessionData(sd, ai_followup) == sd

\* A variant of BlockedAdvance whose guidance turn replays the current
\* skill-attempt only, as a content turn does.
BlockedAdvanceCurrentSkillOnly(sd, msgs, gate, gen) ==
    LET history == build_conversation_history(sd, msgs, TRUE)
        session_context == [build_session_context(sd, FALSE)
                               EXCEPT !.internal_note = gate.result.reasoning]
        call == GenerationCall(history, TRUE, TRUE, session_context)
    IN  Outcome(BlockedSessionData(sd, gen),
            Append(msgs, NewMessage(SomeMessage(AttemptedToAdvance), sd.current_phase,
                                    NoIndex, NoIndex, gen)),
            Observation("advance_phase", "blocked", <<gate>>, <<call>>,
                [NoResponse EXCEPT !.blocked = TRUE,
                                   !.current_skill = skills[sd.skill_index + 1],
                                   !.ai_message = gen]))

\* views.py 267-300: the gate said not mastered.
BlockedAdvance(sd, msgs, gate, gen) ==
    LET history == build_conversation_history(sd, msgs, FALSE)
        session_context == [build_session_context(sd, FALSE)
                               EXCEPT !.internal_note = gate.result.reasoning]
        call == GenerationCall(history, TRUE, TRUE, session_context)
    IN  IF gen = GenerationError
        THEN Outcome(sd, msgs,
                 Observation("advance_phase", "generation_error", <<gate>>, <<call>>,
                     NoResponse))
        ELSE Outcome(BlockedSessionData(sd, gen),
                 Append(msgs, NewMessage(SomeMessage(AttemptedToAdvance), sd.current_phase,
                                         NoIndex, NoIndex, gen)),
                 Observation("advance_phase", "blocked", <<gate>>, <<call>>,
                     [NoResponse EXCEPT !.blocked = TRUE,
                                        !.current_skill = skills[sd.skill_index + 1],
                                        !.ai_message = gen]))

\* A variant of NextIndices that forgets source_index += 1 when the skills
\* of a source are done.
NextIndicesNoSourceStep(source_index, skill_index) ==
    IF skill_index + 1 >= Len(skills)
    THEN <<source_index, 0>>
    ELSE <<source_index, skill_index + 1>>

\* A variant of NextIndices with > for >= in the test of the skill count.
NextIndicesOffByOne(source_index, skill_index) ==
    IF skill_index + 1 > Len(skills)
    THEN <<source_index + 1, 0>>
    ELSE <<source_index, skill_index + 1>>

\* views.py 305-311: the indices of the next skill-attempt.
NextIndices(source_index, skill_index) ==
    IF skill_index + 1 >= Len(skills)
    THEN <<source_index + 1, 0>>
    ELSE <<source_index, skill_index + 1>>

\* A variant of CompleteSession that answers complete without writing the
\* phase to the session.
CompleteSessionUnsaved(sd, msgs, gate) ==
    Outcome(sd, msgs,
        Observation("advance_phase", "complete", <<gate>>, <<>>,
            [NoResponse EXCEPT !.next_phase = "complete",
                               !.complete = TRUE,
                               !.ai_message = <<"Excellent work!">>]))

\* views.py 316-325: every source is done.
CompleteSession(sd, msgs, gate) ==
    Outcome([sd EXCEPT !.current_phase = "complete"], msgs,
        Observation("advance_phase", "complete", <<gate>>, <<>>,
            [NoResponse EXCEPT !.next_phase = "complete",
                               !.complete = TRUE,
                               !.ai_message = <<"Excellent work!">>]))

\* A variant of IntroduceNext that prunes the evidence of the skill-attempt
\* just passed when it commits the next one.
IntroduceNextPruning(sd, msgs, gate, gen, source_index, skill_index) ==
    LET sd1 == [sd EXCEPT !.skill_index = skill_index,
                          !.source_index = source_index,
                          !.questions_asked_this_skill = 0,
                          !.skill_evidence =
                              [k \in DOMAIN @ |->
                                  IF k = Key(sd.source_index, sd.skill_index)
                                  THEN <<>> ELSE @[k]]]
        call == GenerationCall(<<>>, TRUE, TRUE, build_session_context(sd1, TRUE))
    IN  Outcome(sd1,
            Append(msgs, NewMessage(NoneMessage, "source_loop",
                                    source_index, skill_index, gen)),
            Observation("advance_phase", "advanced", <<gate>>, <<call>>,
                [NoResponse EXCEPT !.next_phase = "source_loop",
                                   !.current_skill = skills[skill_index + 1],
                                   !.ai_message = gen]))

\* views.py 330-382: the next skill-attempt is committed, then introduced.
IntroduceNext(sd, msgs, gate, gen, source_index, skill_index) ==
    LET sd1 == [sd EXCEPT !.skill_index = skill_index,
                          !.source_index = source_index,
                          !.questions_asked_this_skill = 0]
        call == GenerationCall(<<>>, TRUE, TRUE, build_session_context(sd1, TRUE))
    IN  IF gen = GenerationError
        THEN Outcome(sd1, msgs,
                 Observation("advance_phase", "generation_error", <<gate>>, <<call>>,
                     NoResponse))
        ELSE Outcome(sd1,
                 Append(msgs, NewMessage(NoneMessage, "source_loop",
                                         source_index, skill_index, gen)),
                 Observation("advance_phase", "advanced", <<gate>>, <<call>>,
                     [NoResponse EXCEPT !.next_phase = "source_loop",
                                        !.current_skill =
                                            IF skill_index < Len(skills)
                                            THEN skills[skill_index + 1]
                                            ELSE "Unknown",
                                        !.ai_message = gen]))

\* A variant of PermittedAdvance with > for >= in the test of the source count.
PermittedAdvanceOffByOne(sd, msgs, gate, gen) ==
    LET next == NextIndices(sd.source_index, sd.skill_index)
    IN  IF next[1] > Len(sources)
        THEN CompleteSession(sd, msgs, gate)
        ELSE IntroduceNext(sd, msgs, gate, gen, next[1], next[2])

\* views.py 302-382: the gate said mastered.
PermittedAdvance(sd, msgs, gate, gen) ==
    LET next == NextIndices(sd.source_index, sd.skill_index)
    IN  IF next[1] >= Len(sources)
        THEN CompleteSession(sd, msgs, gate)
        ELSE IntroduceNext(sd, msgs, gate, gen, next[1], next[2])

\* views.py 242-382: source_loop.  skills[skill_index] raises IndexError for
\* an index outside the list, before the gate is consulted.
AdvanceInSourceLoop(sd, msgs, judge, gen) ==
    IF sd.skill_index >= Len(skills)
    THEN Outcome(sd, msgs,
             Observation("advance_phase", "index_error", <<>>, <<>>, NoResponse))
    ELSE LET evidence == GetEvidence(sd, Key(sd.source_index, sd.skill_index))
             conversation_excerpt == get_recent_conversation_excerpt(msgs, NumExchanges)
             gate == GateCall(skills[sd.skill_index + 1], student_proficiency,
                              evidence, conversation_excerpt, judge)
         IN  IF gate.result.raised
             THEN Outcome(sd, msgs,
                      Observation("advance_phase", "judgment_error", <<gate>>, <<>>,
                          NoResponse))
             ELSE IF ~gate.result.is_mastered
             THEN BlockedAdvance(sd, msgs, gate, gen)
             ELSE PermittedAdvance(sd, msgs, gate, gen)

\* views.py 384-388: any other phase.
PhaseNotRecognized(sd, msgs) ==
    Outcome(sd, msgs,
        Observation("advance_phase", "not_recognized", <<>>, <<>>,
            [NoResponse EXCEPT !.next_phase = sd.current_phase,
                               !.ai_message = <<"Phase not recognized.">>]))

\* A variant of AdvancePhase whose last branch takes every phase other than
\* source_loop for intro.
AdvancePhaseElseIntro(sd, msgs, judge, gen) ==
    IF sd.current_phase = "source_loop" THEN AdvanceInSourceLoop(sd, msgs, judge, gen)
    ELSE AdvanceFromIntro(sd, msgs, gen)

\* views.py 168-388.
AdvancePhase(sd, msgs, judge, gen) ==
    IF sd.current_phase = "intro" THEN AdvanceFromIntro(sd, msgs, gen)
    ELSE IF sd.current_phase = "source_loop" THEN AdvanceInSourceLoop(sd, msgs, judge, gen)
    ELSE PhaseNotRecognized(sd, msgs)

\* ------------------------------------------------------- requests in flight
\* The local variables of a handler that is being executed: where it is
\* (pc), the session object it loaded (session.session_data), and what it has
\* computed so far.
NoRequest ==
    [ pc |-> "none",
      session_data |-> InitialSessionData,
      current_phase |-> "",
      student_message |-> <<>>,
      gate |-> <<>>,
      next |-> <<NoIndex, NoIndex>>,
      ai_response |-> <<>> ]

\* No request is being served step by step.
NoRequests ==
    [ stage |-> "idle",
      before |-> InitialSessionData,
      raw_message |-> <<>>,
      student |-> NoRequest,
      advance |-> NoRequest ]

\* ------------------------------------------------------------ specification
\* One handler call.  The model bounds the length of the transcript and the
\* number of generation failures.
Failed(out) == IF out.last.result = "generation_error" THEN 1 ELSE 0

Commit(out, max_messages, max_failures) ==
    /\ Len(out.messages) <= max_messages
    /\ failures + Failed(out) <= max_failures
    /\ session_data' = out.session_data
    /\ messages' = out.messages
    /\ last' = out.last
    /\ failures' = failures + Failed(out)
    /\ UNCHANGED in_flight

Init ==
    /\ \E n \in 0..MaxSkills : skills = [i \in 1..n |-> SkillNames[i]]
    /\ \E n \in 0..MaxSources : sources = [i \in 1..n |-> i]
    /\ student_proficiency = DefaultProficiency
    /\ started = FALSE
    /\ session_data = InitialSessionData
    /\ messages = <<>>
    /\ last = Observation("none", "none", <<>>, <<>>, NoResponse)
    /\ failures = 0
    /\ in_flight = NoRequests

\* The three handlers, with the generation collaborator answering from Gens.
StartSessionCall(Gens, max_messages, max_failures) ==
    /\ ~started
    /\ started' = TRUE
    /\ \E gen \in Gens : Commit(StartSession(gen), max_messages, max_failures)
    /\ UNCHANGED assignment

StudentResponseCall(Gens, max_messages, max_failures) ==
    /\ started
    /\ \E raw_message \in RawMessages, gen \in Gens :
           Commit(StudentResponse(session_data, messages, raw_message, gen),
                  max_messages, max_failures)
    /\ UNCHANGED <<assignment, started>>

AdvancePhaseCall(Gens, max_messages, max_failures) ==
    /\ started
    /\ \E judge \in JudgeOutcomes, gen \in Gens :
           Commit(AdvancePhase(session_data, messages, judge, gen),
                  max_messages, max_failures)
    /\ UNCHANGED <<assignment, started>>

\* Spec: the collaborators answer (a statement or a question); the judgment
\* collaborator may return an unparseable verdict.
start_session == StartSessionCall(AIOutputs, MaxMessages, 0)
student_response == StudentResponseCall(AIOutputs, MaxMessages, 0)
advance_phase == AdvancePhaseCall(AIOutputs, MaxMessages, 0)

Next == start_session \/ student_response \/ advance_phase

Spec == Init /\ [][Next]_vars

\* SpecFaults: the generation collaborator asks a question or raises.
FaultyOutputs == {Question, GenerationError}
start_session_faulty == StartSessionCall(FaultyOutputs, MaxFaultMessages, MaxFailures)
student_response_faulty ==
    StudentResponseCall(FaultyOutputs, MaxFaultMessages, MaxFailures)
advance_phase_faulty == AdvancePhaseCall(FaultyOutputs, MaxFaultMessages, MaxFailures)

NextFaults == start_session_faulty \/ student_response_faulty \/ advance_phase_faulty

SpecFaults == Init /\ [][NextFaults]_vars

\* SpecDialogue: longer sessions in which the generation collaborator does as
\* its system prompt says and asks one question in every reply.
start_session_dialogue == StartSessionCall({Question}, MaxTurns, 0)
student_response_dialogue == StudentResponseCall({Question}, MaxTurns, 0)
advance_phase_dialogue == AdvancePhaseCall({Question}, MaxTurns, 0)

NextDialogue ==
    start_session_dialogue \/ student_response_dialogue \/ advance_phase_dialogue

SpecDialogue == Init /\ [][NextDialogue]_vars

\* SpecGate: the Mastery Gate alone, consulted on arbitrary arguments.
EvidenceLists == {<<>>, << <<"a">> >>, << <<"a">>, <<"a">> >>}
Excerpts ==
    { <<>>,
      <<[speaker |-> "AI", content |-> Question]>>,
      <<[speaker |-> "AI", content |-> Question],
        [speaker |-> "Student", content |-> <<"a">>]>> }

consult_gate ==
    /\ \E i \in DOMAIN SkillNames, proficiency \in StudentProficiencies,
          evidence \in EvidenceLists, excerpt \in Excerpts, judge \in JudgeOutcomes :
           LET gate == GateCall(SkillNames[i], proficiency, evidence, excerpt, judge)
           IN  last' = Observation("evaluate_skill_mastery",
                           IF gate.result.raised THEN "judgment_error" ELSE "ok",
                           <<gate>>, <<>>, NoResponse)
    /\ UNCHANGED <<assignment, started, session_data, messages, failures, in_flight>>

InitGate == Init /\ Len(skills) = MaxSkills /\ Len(sources) = MaxSources

SpecGate == InitGate /\ [][consult_gate]_vars

\* SpecConcurrent: a student_response and an advance_phase on the same
\* session served at once.  Neither handler takes a lock: each loads the
\* session row into its own object (views.py 32, 175), works on that object
\* and writes the whole session_data back with session.save().  A step is one
\* load, one collaborator call or one save of a handler, as the code orders
\* them.  The collaborators answer (the generation collaborator a question).
start_session_before ==
    /\ in_flight.stage = "idle"
    /\ StartSessionCall({Question}, MaxRaceMessages - 2, 0)
student_response_before ==
    /\ in_flight.stage = "idle"
    /\ StudentResponseCall({Question}, MaxRaceMessages - 2, 0)
advance_phase_before ==
    /\ in_flight.stage = "idle"
    /\ AdvancePhaseCall({Question}, MaxRaceMessages - 2, 0)

\* The two requests arrive.
concurrent_requests ==
    /\ started
    /\ in_flight.stage = "idle"
    /\ Len(messages) + 2 <= MaxRaceMessages
    /\ \E raw_message \in RawMessages :
           in_flight' = [ stage |-> "running",
                          before |-> session_data,
                          raw_message |-> raw_message,
                          student |-> [NoRequest EXCEPT !.pc = "load"],
                          advance |-> [NoRequest EXCEPT !.pc = "load"] ]
    /\ UNCHANGED <<assignment, started, session_data, messages, last, failures>>

\* The requests' steps leave the assignment and the bookkeeping alone.
Running(request) == in_flight.stage = "running" /\ request.pc # "done"
Stage(student, advance) ==
    IF student.pc = "done" /\ advance.pc = "done" THEN "done" ELSE "running"
StudentStep(student) ==
    in_flight' = [in_flight EXCEPT !.student = student,
                                   !.stage = Stage(student, in_flight.advance)]
AdvanceStep(advance) ==
    in_flight' = [in_flight EXCEPT !.advance = advance,
                                   !.stage = Stage(in_flight.student, advance)]
Frame == UNCHANGED <<assignment, started, last, failures>>

\* views.py 32-35: student_response loads the session and reads the message.
student_response_load ==
    /\ Running(in_flight.student) /\ in_flight.student.pc = "load"
    /\ StudentStep([in_flight.student EXCEPT
           !.pc = "record",
           !.session_data = session_data,
           !.current_phase = session_data.current_phase,
           !.student_message = Strip(in_flight.raw_message)])
    /\ UNCHANGED <<session_data, messages>> /\ Frame

\* views.py 44-55: the evidence is appended on the loaded object, which is saved.
student_response_record ==
    /\ Running(in_flight.student) /\ in_flight.student.pc = "record"
    /\ LET student == in_flight.student
           sd1 == RecordEvidence(student.session_data, student.student_message)
       IN  /\ StudentStep([student EXCEPT !.pc = "generate", !.session_data = sd1])
           /\ session_data' =
                  IF student.current_phase = "source_loop" /\ student.student_message # <<>>
                  THEN sd1 ELSE session_data
    /\ UNCHANGED messages /\ Frame

\* views.py 63-96: the reply is generated.
student_response_generate ==
    /\ Running(in_flight.student) /\ in_flight.student.pc = "generate"
    /\ StudentStep([in_flight.student EXCEPT !.pc = "count", !.ai_response = Question])
    /\ UNCHANGED <<session_data, messages>> /\ Frame

\* views.py 98-105: the question counter is raised on the loaded object, which
\* is saved.
student_response_count ==
    /\ Running(in_flight.student) /\ in_flight.student.pc = "count"
    /\ LET student == in_flight.student
           sd1 == CountQuestion(student.session_data, student.current_phase,
                                student.ai_response)
       IN  /\ StudentStep([student EXCEPT !.pc = "message", !.session_data = sd1])
           /\ session_data' =
                  IF student.current_phase = "source_loop"
                     /\ HasQuestionMark(student.ai_response)
                  THEN sd1 ELSE session_data
    /\ UNCHANGED messages /\ Frame

\* views.py 110-116: the Message row is created.
student_response_message ==
    /\ Running(in_flight.student) /\ in_flight.student.pc = "message"
    /\ LET student == in_flight.student
       IN  /\ StudentStep([student EXCEPT !.pc = "done"])
           /\ messages' = Append(messages,
                  NewMessage(SomeMessage(student.student_message), student.current_phase,
                             NoIndex, NoIndex, student.ai_response))
    /\ UNCHANGED session_data /\ Frame

\* views.py 175-177, and 384-388 for a phase that is neither intro nor
\* source_loop: advance_phase loads the session.
advance_phase_load ==
    /\ Running(in_flight.advance) /\ in_flight.advance.pc = "load"
    /\ AdvanceStep([in_flight.advance EXCEPT
           !.pc = IF session_data.current_phase = "intro" THEN "begin"
                  ELSE IF session_data.current_phase = "source_loop" THEN "gate"
                  ELSE "done",
           !.session_data = session_data,
           !.current_phase = session_data.current_phase])
    /\ UNCHANGED <<session_data, messages>> /\ Frame

\* views.py 188-192: intro -> source_loop is saved.
advance_phase_begin ==
    /\ Running(in_flight.advance) /\ in_flight.advance.pc = "begin"
    /\ LET advance == in_flight.advance
           sd1 == [advance.session_data EXCEPT !.current_phase = "source_loop",
                                               !.source_index = 0,
                                               !.skill_index = 0]
       IN  /\ AdvanceStep([advance EXCEPT !.pc = "generate", !.session_data = sd1,
                                          !.next = <<0, 0>>])
           /\ session_data' = sd1
    /\ UNCHANGED messages /\ Frame

\* views.py 243-267 and 305-311: the Mastery Gate is consulted on the loaded
\* evidence and on the transcript as it is now.
advance_phase_gate ==
    /\ Running(in_flight.advance) /\ in_flight.advance.pc = "gate"
    /\ LET advance == in_flight.advance
           sd == advance.session_data
       IN  IF sd.skill_index >= Len(skills)
           THEN AdvanceStep([advance EXCEPT !.pc = "done"])
           ELSE \E judge \in JudgeOutcomes :
                    LET gate == GateCall(skills[sd.skill_index + 1], student_proficiency,
                                    GetEvidence(sd, Key(sd.source_index, sd.skill_index)),
                                    get_recent_conversation_excerpt(messages, NumExchanges),
                                    judge)
                    IN  AdvanceStep([advance EXCEPT
                            !.gate = <<gate>>,
                            !.pc = IF gate.result.raised THEN "done"
                                   ELSE IF gate.result.is_mastered THEN "commit"
                                   ELSE "blocked_generate",
                            !.next = NextIndices(sd.source_index, sd.skill_index)])
    /\ UNCHANGED <<session_data, messages>> /\ Frame

\* views.py 270-287: the guidance turn of a blocked advance is generated.
advance_phase_blocked_generate ==
    /\ Running(in_flight.advance) /\ in_flight.advance.pc = "blocked_generate"
    /\ AdvanceStep([in_flight.advance EXCEPT !.pc = "blocked_message",
                                             !.ai_response = Question])
    /\ UNCHANGED <<session_data, messages>> /\ Frame

\* views.py 290-300: the guidance turn is stored.
advance_phase_blocked_message ==
    /\ Running(in_flight.advance) /\ in_flight.advance.pc = "blocked_message"
    /\ LET advance == in_flight.advance
       IN  /\ AdvanceStep([advance EXCEPT !.pc = "done"])
           /\ messages' = Append(messages,
                  NewMessage(SomeMessage(AttemptedToAdvance), advance.current_phase,
                             NoIndex, NoIndex, advance.ai_response))
    /\ UNCHANGED session_data /\ Frame

\* views.py 316-334: the loaded object is saved, as complete or with the
\* indices of the next skill-attempt.
advance_phase_commit ==
    /\ Running(in_flight.advance) /\ in_flight.advance.pc = "commit"
    /\ LET advance == in_flight.advance
           sd1 == IF advance.next[1] >= Len(sources)
                  THEN [advance.session_data EXCEPT !.current_phase = "complete"]
                  ELSE [advance.session_data EXCEPT
                           !.skill_index = advance.next[2],
                           !.source_index = advance.next[1],
                           !.questions_asked_this_skill = 0]
       IN  /\ AdvanceStep([advance EXCEPT
                  !.pc = IF advance.next[1] >= Len(sources) THEN "done" ELSE "refresh",
                  !.session_data = sd1])
           /\ session_data' = sd1
    /\ UNCHANGED messages /\ Frame

\* views.py 337: session.refresh_from_db().
advance_phase_refresh ==
    /\ Running(in_flight.advance) /\ in_flight.advance.pc = "refresh"
    /\ AdvanceStep([in_flight.advance EXCEPT !.pc = "generate",
                                             !.session_data = session_data])
    /\ UNCHANGED <<session_data, messages>> /\ Frame

\* views.py 194-208 and 344-357: the introduction turn is generated.
advance_phase_generate ==
    /\ Running(in_flight.advance) /\ in_flight.advance.pc = "generate"
    /\ AdvanceStep([in_flight.advance EXCEPT !.pc = "message", !.ai_response = Question])
    /\ UNCHANGED <<session_data, messages>> /\ Frame

\* views.py 211-215 and 362-371: the transition entry is stored, tagged with
\* the handler's own indices.
advance_phase_message ==
    /\ Running(in_flight.advance) /\ in_flight.advance.pc = "message"
    /\ LET advance == in_flight.advance
       IN  /\ AdvanceStep([advance EXCEPT !.pc = "done"])
           /\ messages' = Append(messages,
                  NewMessage(NoneMessage, "source_loop", advance.next[1], advance.next[2],
                             advance.ai_response))
    /\ UNCHANGED session_data /\ Frame

NextConcurrent ==
    \/ start_session_before
    \/ student_response_before
    \/ advance_phase_before
    \/ concurrent_requests
    \/ student_response_load
    \/ student_response_record
    \/ student_response_generate
    \/ student_response_count
    \/ student_response_message
    \/ advance_phase_load
    \/ advance_phase_begin
    \/ advance_phase_gate
    \/ advance_phase_blocked_generate
    \/ advance_phase_blocked_message
    \/ advance_phase_commit
    \/ advance_phase_refresh
    \/ advance_phase_generate
    \/ advance_phase_message

SpecConcurrent == Init /\ [][NextConcurrent]_vars

\* SpecLive: a student who keeps answering and keeps asking to advance, on
\* an assignment with at least one source and one skill.  The collaborators
\* do not fail and the judge gives a verdict; it refuses a bounded number of
\* times (it eventually says mastered), and the student says a bounded number
\* of utterances in one skill-attempt.  Nothing bounds the permitted advances.
Refusals ==
    Cardinality({ i \in 1..Len(messages) :
                      messages[i].message = SomeMessage(AttemptedToAdvance) })

LiveMessages == 2 + MaxSources * MaxSkills * (MaxUtterances + 1) + MaxRefusals

start_session_live == StartSessionCall({Question}, LiveMessages, 0)

student_response_live ==
    /\ started
    /\ session_data.current_phase = "source_loop"
    /\ Len(GetEvidence(session_data,
                       Key(session_data.source_index, session_data.skill_index)))
           < MaxUtterances
    /\ Commit(StudentResponse(session_data, messages, <<"a">>, Question), LiveMessages, 0)
    /\ UNCHANGED <<assignment, started>>

advance_phase_live ==
    /\ started
    /\ \E judge \in JudgeVerdicts :
           LET out == AdvancePhase(session_data, messages, judge, Question)
           IN  /\ out.last.result = "blocked" => Refusals < MaxRefusals
               /\ Commit(out, LiveMessages, 0)
    /\ UNCHANGED <<assignment, started>>

NextLive == start_session_live \/ student_response_live \/ advance_phase_live

InitLive == Init /\ skills # <<>> /\ sources # <<>>

\* The student and the front end keep calling: each handler that can be
\* called is eventually called.
SpecLive ==
    /\ InitLive
    /\ [][NextLive]_vars
    /\ WF_vars(start_session_live)
    /\ WF_vars(student_response_live)
    /\ WF_vars(advance_phase_live)

\* ------------------------------------------------------------------ claims
phase == session_data.current_phase
source_index == session_data.source_index
skill_index == session_data.skill_index
questions_asked_this_skill == session_data.questions_asked_this_skill

\* The step just taken was a consultation of the gate that said mastered.
MasteredAdvance(obs) ==
    /\ obs.op = "advance_phase"
    /\ obs.gate # <<>>
    /\ obs.gate[1].result.is_mastered

\* (s1, k1) <= (s2, k2) in lexicographic order.
LexLeq(s1, k1, s2, k2) == s1 < s2 \/ (s1 = s2 /\ k1 <= k2)

\* The lexicographic successor of (s, k) among the skill-attempts.
Successor(s, k) == IF k + 1 < Len(skills) THEN <<s, k + 1>> ELSE <<s + 1, 0>>

\* An advance from the current skill-attempt is terminal: the attempt has no
\* successor among the sources (for indices inside the assignment, the last
\* skill of the last source; with no sources at all, every attempt).
Terminal == Successor(source_index, skill_index)[1] >= Len(sources)

\* The current skill-attempt is the last skill of the last source.
AtLastAttempt == skill_index + 1 >= Len(skills) /\ source_index + 1 >= Len(sources)

\* C1: once a session exists, skill_index is in [0, number of skills) while
\* phase = source_loop, and source_index is in [0, number of sources], equal
\* to the number of sources only when phase = complete (for every assignment,
\* an empty skill list or source list included).
C1_IndexRanges ==
    started =>
        /\ (phase = "source_loop" => 0 <= skill_index /\ skill_index < Len(skills))
        /\ 0 <= source_index /\ source_index <= Len(sources)
        /\ (source_index = Len(sources) => phase = "complete")

\* C2: in source_loop the indices and the phase change only in an
\* advance_phase call whose gate said mastered on the current skill-attempt's
\* evidence; a student_response never changes them, whatever the question
\* counter is (4 and above included).
C2_OnlyMasteredAdvanceMoves ==
    [][ /\ (last'.op = "student_response" =>
               /\ phase' = phase
               /\ source_index' = source_index
               /\ skill_index' = skill_index)
        /\ (phase = "source_loop"
            /\ <<phase, source_index, skill_index>>' # <<phase, source_index, skill_index>>
            => /\ MasteredAdvance(last')
               /\ last'.gate[1].evidence =
                      GetEvidence(session_data, Key(source_index, skill_index))
               /\ last'.gate[1].evidence # <<>>) ]_vars

\* C2's case: a content turn has acted on a session whose question counter
\* had already reached the wrap-up threshold.
C2_Witness ==
    /\ last.op = "student_response"
    /\ last.result = "ok"
    /\ phase = "source_loop"
    /\ questions_asked_this_skill > WrapUpThreshold

\* C3: no step decreases (source_index, skill_index) in lexicographic order.
C3_IndicesNeverDecrease ==
    [][ LexLeq(source_index, skill_index, source_index', skill_index') ]_vars

\* C3's case: a permitted advance has moved from the last skill of source 0
\* to skill 0 of source 1 (skill_index went down, the pair went up).
C3_Witness ==
    /\ MasteredAdvance(last)
    /\ last.result = "advanced"
    /\ Len(skills) >= 2
    /\ source_index = 1
    /\ skill_index = 0

\* C4: a blocked advance_phase (the gate said not mastered) leaves phase,
\* indices, evidence and question counter as they were, appends exactly one
\* guidance entry to the transcript and returns blocked = true with the
\* current skill.
C4_BlockedAdvanceFrame ==
    [][ (phase = "source_loop" /\ last'.op = "advance_phase" /\ last'.gate # <<>>
         /\ ~last'.gate[1].result.raised /\ ~last'.gate[1].result.is_mastered)
        => /\ session_data' = session_data
           /\ Len(messages') = Len(messages) + 1
           /\ SubSeq(messages', 1, Len(messages)) = messages
           /\ messages'[Len(messages')].message = SomeMessage(AttemptedToAdvance)
           /\ messages'[Len(messages')].response = last'.response.ai_message
           /\ last'.response.blocked
           /\ last'.response.current_skill = skills[skill_index + 1] ]_vars

\* C4's case: the judge refused a skill-attempt that has evidence, and the
\* guidance turn generated for it asks a question.
C4_Witness ==
    /\ last.op = "advance_phase"
    /\ last.result = "blocked"
    /\ last.gate[1].evidence # <<>>
    /\ HasQuestionMark(last.response.ai_message)
    /\ questions_asked_this_skill = 0

\* C5: evaluate_skill_mastery on an empty evidence list returns
\* is_mastered = false and sends nothing to the judgment collaborator,
\* whatever the skill, the proficiency and the excerpt.
C5_EmptyEvidenceNotMastered ==
    \A i \in DOMAIN last.gate :
        last.gate[i].evidence = <<>> =>
            /\ ~last.gate[i].result.is_mastered
            /\ ~last.gate[i].result.raised
            /\ last.gate[i].result.judge_prompts = <<>>

\* C5's case: the gate was consulted with no evidence, a non-empty excerpt
\* and a judge that would have said mastered for an advanced student.
C5_Witness ==
    /\ last.op = "evaluate_skill_mastery"
    /\ last.gate[1].evidence = <<>>
    /\ last.gate[1].conversation_excerpt # <<>>
    /\ last.gate[1].proficiency = "advanced"

\* C6: a permitted advance_phase at the last skill of the last source sets
\* phase = complete, answers complete = true, issues no generation call and
\* appends no transcript entry.
C6_LastAdvanceCompletes ==
    [][ (phase = "source_loop" /\ AtLastAttempt /\ MasteredAdvance(last'))
        => /\ phase' = "complete"
           /\ last'.response.complete
           /\ last'.response.next_phase = "complete"
           /\ last'.generation_calls = <<>>
           /\ messages' = messages ]_vars

\* C6's case: a session over two sources has just been completed.
C6_Witness ==
    /\ MasteredAdvance(last)
    /\ last.response.complete
    /\ phase = "complete"
    /\ Len(sources) = 2

\* C7: a permitted advance_phase that is not the last moves the indices to
\* their lexicographic successor, issues exactly one generation call, with an
\* empty replay window and the transition context of the new skill-attempt,
\* and appends one transition entry tagged with the new indices.
C7_PermittedAdvanceStep ==
    [][ (phase = "source_loop" /\ ~Terminal /\ MasteredAdvance(last'))
        => /\ <<source_index', skill_index'>> = Successor(source_index, skill_index)
           /\ phase' = "source_loop"
           /\ Len(last'.generation_calls) = 1
           /\ last'.generation_calls[1].messages_history = <<>>
           /\ last'.generation_calls[1].session_context =
                  build_session_context(session_data', TRUE)
           /\ last'.generation_calls[1].session_context.task
                  \in {"introduce_new_source", "introduce_new_skill"}
           /\ messages' = Append(messages,
                  NewMessage(NoneMessage, "source_loop", source_index', skill_index',
                             last'.response.ai_message)) ]_vars

\* C7's case: a permitted advance has moved to the second skill of a source.
C7_Witness ==
    /\ MasteredAdvance(last)
    /\ last.result = "advanced"
    /\ source_index = 0
    /\ skill_index = 1

\* C8: once phase = complete, every further call (advance_phase or
\* student_response) issues no generation call, appends no transcript entry
\* and leaves the session state unchanged.
C8_CompleteIsTerminal ==
    [][ phase = "complete"
        => /\ session_data' = session_data
           /\ messages' = messages
           /\ last'.generation_calls = <<>> ]_vars

PhaseRank(p) == IF p = "intro" THEN 0 ELSE IF p = "source_loop" THEN 1 ELSE 2

\* C9: phase only moves forward, intro -> source_loop -> complete: it never
\* goes back and never goes from intro to complete in one step.
C9_PhaseMonotonic ==
    [][ /\ PhaseRank(phase) <= PhaseRank(phase')
        /\ PhaseRank(phase') <= PhaseRank(phase) + 1 ]_vars

\* C9's case: advance_phase was called again on a completed session.
C9_Witness ==
    /\ phase = "complete"
    /\ last.op = "advance_phase"
    /\ last.result = "not_recognized"

\* C10: a content turn whose generation call fails changes neither the
\* session state nor the transcript.
C10_FailedContentTurnCommitsNothing ==
    [][ (last'.op = "student_response" /\ last'.result = "generation_error")
        => /\ session_data' = session_data
           /\ messages' = messages ]_vars

\* C11: the index and phase changes of advance_phase are atomic with the
\* transition entry: whenever phase = source_loop, the transcript holds a
\* transition entry (no student input) tagged with the current indices, a
\* generation failure during a begin or a permitted advance included.
C11_TransitionEntryForCurrentAttempt ==
    phase = "source_loop" => SkillStartMatches(session_data, messages) # {}

\* The session state one handler call leaves, whatever the collaborators answer.
AfterStudentResponse(sd, raw_message) ==
    { StudentResponse(sd, <<>>, raw_message, gen).session_data :
          gen \in AIOutputs \cup {GenerationError} }
AfterAdvancePhase(sd) ==
    { AdvancePhase(sd, <<>>, judge, gen).session_data :
          judge \in JudgeOutcomes, gen \in AIOutputs \cup {GenerationError} }

\* The session states the two requests can leave when one is served after
\* the other, in either order.
SerialOutcomes(sd, raw_message) ==
    UNION { AfterAdvancePhase(sd1) : sd1 \in AfterStudentResponse(sd, raw_message) }
    \cup
    UNION { AfterStudentResponse(sd1, raw_message) : sd1 \in AfterAdvancePhase(sd) }

\* C12: when a student_response and an advance_phase on the same session are
\* served at once, the session state they leave is the one that some serial
\* order of the two requests leaves: the advance's indices are not reverted
\* by the content turn's later save, and the utterance appended to the
\* evidence is not overwritten by the advance's save.
C12_ConcurrentRequestsSerializable ==
    in_flight.stage = "done" =>
        session_data \in SerialOutcomes(in_flight.before, in_flight.raw_message)

\* s is a suffix of t.
IsSuffix(s, t) == Len(s) <= Len(t) /\ SubSeq(t, Len(t) - Len(s) + 1, Len(t)) = s

CurrentSkillWindow == build_conversation_history(session_data, messages, TRUE)
FullSessionWindow == build_conversation_history(session_data, messages, FALSE)

\* C13 as stated: in every state of a session the current-skill-attempt
\* replay window is a strict suffix of the full-session replay window, i.e. a
\* suffix that is shorter than it.
C13_StrictSuffixInEveryState ==
    started =>
        /\ IsSuffix(CurrentSkillWindow, FullSessionWindow)
        /\ CurrentSkillWindow # FullSessionWindow

\* C13, amended: in every state the current-skill-attempt replay window is a
\* suffix of the full-session replay window; it is shorter than it exactly
\* when phase = source_loop and the transition entry tagged with the current
\* indices exists and is not the first entry of the transcript, and it is the
\* full-session window otherwise.
C13_CurrentSkillWindowIsSuffix ==
    /\ IsSuffix(CurrentSkillWindow, FullSessionWindow)
    /\ (CurrentSkillWindow # FullSessionWindow
        <=> phase = "source_loop" /\ SkillStartIndex(session_data, messages) > 1)

\* C13's case: a content turn has been answered in the second skill-attempt
\* of a session, with the window cut at that attempt's introduction.
C13_Witness ==
    /\ last.op = "student_response"
    /\ phase = "source_loop"
    /\ <<source_index, skill_index>> # <<0, 0>>
    /\ SkillStartIndex(session_data, messages) > 2
    /\ Len(CurrentSkillWindow) >= 3
    /\ Len(CurrentSkillWindow) < Len(FullSessionWindow)

\* The call consulted the Mastery Gate and got a verdict.
Consulted(obs) ==
    /\ obs.op = "advance_phase"
    /\ obs.gate # <<>>
    /\ ~obs.gate[1].result.raised

\* The verdicts of two consultations are those of a judge that is a function
\* of the evidence list and the excerpt it is given.
FunctionOfEvidenceAndExcerpt(g1, g2) ==
    (g1.evidence = g2.evidence /\ g1.conversation_excerpt = g2.conversation_excerpt)
    => g1.result.is_mastered = g2.result.is_mastered

\* C14: two advance_phase calls in immediate succession on a session in
\* source_loop, on the same skill-attempt with the same evidence, get the same
\* verdict (both blocked or both permitted) from a gate whose verdict is a
\* function of the evidence list and the excerpt it is given.
C14_RepeatedAdvanceSameVerdict ==
    [][ ( /\ phase = "source_loop"
          /\ Consulted(last) /\ Consulted(last')
          /\ last'.gate[1].skill = last.gate[1].skill
          /\ last'.gate[1].evidence = last.gate[1].evidence
          /\ FunctionOfEvidenceAndExcerpt(last.gate[1], last'.gate[1]) )
        => last'.gate[1].result.is_mastered = last.gate[1].result.is_mastered ]_vars

\* The contexts build_session_context renders in source_loop in place of the
\* current task when an index is outside its list.
SubstitutedTasks == {"all_sources_complete", "error_skill_index_out_of_bounds"}

\* C15: when the session context is built in phase source_loop with
\* skill_index outside the skill list or source_index outside the source
\* list, an internal consistency error is signalled: no generation call is
\* issued with a context substituted for the missing task.
C15_NoGenerationOnSubstitutedContext ==
    \A i \in DOMAIN last.generation_calls :
        last.generation_calls[i].session_context.task \notin SubstitutedTasks

\* C16: the reply of a blocked advance_phase never contains the Mastery
\* Gate's reasoning: the reasoning is not a field of the response, and it is
\* not part of the input (history and session context) from which the visible
\* reply is generated.
C16_BlockedReplyWithoutReasoning ==
    last.result = "blocked" =>
        /\ "reasoning" \notin DOMAIN last.response
        /\ \A i \in DOMAIN last.generation_calls :
               last.generation_calls[i].session_context.internal_note
                   # last.gate[1].result.reasoning

\* C17: advance_phase in phase intro consults no Mastery Gate and sets
\* phase = source_loop with source_index = 0 and skill_index = 0; it issues
\* one generation call, with an empty replay window and the context of a
\* phase transition, and appends one transition entry tagged (0, 0).  The
\* transition happens at most once: phase never returns to intro, and only a
\* call made in intro begins the source loop.
C17_BeginFromIntro ==
    [][ /\ (phase = "intro" /\ last'.op = "advance_phase")
           => /\ last'.gate = <<>>
              /\ phase' = "source_loop"
              /\ source_index' = 0
              /\ skill_index' = 0
              /\ Len(last'.generation_calls) = 1
              /\ last'.generation_calls[1].messages_history = <<>>
              /\ last'.generation_calls[1].session_context =
                     build_session_context(session_data', TRUE)
              /\ messages' = Append(messages,
                     NewMessage(NoneMessage, "source_loop", 0, 0,
                                last'.response.ai_message))
        /\ (phase # "intro" => phase' # "intro")
        /\ (last'.result = "begin" => phase = "intro") ]_vars

\* C17's case: the source loop of a session with a welcome in its transcript
\* has just been begun.
C17_Witness ==
    /\ last.op = "advance_phase"
    /\ last.result = "begin"
    /\ Len(messages) = 2
    /\ messages[1].phase = "intro"
    /\ Len(skills) = 2

\* The skill-attempts of the assignment that the session has passed: those
\* before the current one in lexicographic order, and all of them once the
\* session is complete.
PassedKeys ==
    { key \in (0..(Len(sources) - 1)) \X (0..(Len(skills) - 1)) :
        \/ phase = "complete"
        \/ /\ LexLeq(key[1], key[2], source_index, skill_index)
           /\ key # <<source_index, skill_index>> }

\* C18: no skill-attempt is passed with zero recorded utterances: in every
\* state every passed skill-attempt has a non-empty evidence list, and an
\* advance_phase issued immediately after a permitted advance into a new
\* skill-attempt is blocked, on empty evidence and without asking the judge.
C18_NoAttemptPassedWithoutEvidence ==
    /\ [](\A key \in PassedKeys :
              /\ key \in DOMAIN session_data.skill_evidence
              /\ session_data.skill_evidence[key] # <<>>)
    /\ [][ (last.result = "advanced" /\ last'.op = "advance_phase")
           => /\ last'.result = "blocked"
              /\ last'.gate[1].evidence = <<>>
              /\ last'.gate[1].result.judge_prompts = <<>>
              /\ <<phase', source_index', skill_index'>>
                     = <<phase, source_index, skill_index>> ]_vars

\* C18's case: a session over two skill-attempts is complete.
C18_Witness ==
    /\ phase = "complete"
    /\ Cardinality(PassedKeys) = 2

\* C18's other case: advance_phase was called again right after a permitted
\* advance had entered the second skill-attempt.
C18_WitnessRepeated ==
    /\ last.result = "blocked"
    /\ last.gate[1].evidence = <<>>
    /\ PassedKeys # {}
    /\ messages[Len(messages) - 1].message = NoneMessage

\* C19: once the session is complete the committed indices are those of the
\* completed traversal: skill_index has been reset to 0 and source_index is
\* the number of sources.
C19_CompleteIndices ==
    phase = "complete" => skill_index = 0 /\ source_index = Len(sources)

\* The utterance of a content turn, as the handler passed it on: the user
\* turn it put at the end of the replay window.
Utterance(obs) ==
    obs.generation_calls[1].messages_history[
        Len(obs.generation_calls[1].messages_history)].content

\* C20: a student_response in phase source_loop with an utterance that is
\* not empty after trimming appends exactly that utterance as the last
\* element of the evidence list of the current (source_index, skill_index),
\* creating the list if the key is absent, and leaves the other lists, the
\* phase and both indices unchanged.
C20_UtteranceAppendedToEvidence ==
    [][ (phase = "source_loop" /\ last'.op = "student_response"
         /\ Utterance(last') # <<>>)
        => LET key == Key(source_index, skill_index)
           IN  /\ DOMAIN session_data'.skill_evidence
                      = DOMAIN session_data.skill_evidence \cup {key}
               /\ session_data'.skill_evidence[key]
                      = Append(GetEvidence(session_data, key), Utterance(last'))
               /\ \A k \in DOMAIN session_data.skill_evidence \ {key} :
                      session_data'.skill_evidence[k] = session_data.skill_evidence[k]
               /\ Utterance(last')[1] \notin Whitespace
               /\ Utterance(last')[Len(Utterance(last'))] \notin Whitespace
               /\ <<phase', source_index', skill_index'>>
                      = <<phase, source_index, skill_index>> ]_vars

\* C20's case: a second utterance has been recorded in a skill-attempt, and
\* an earlier skill-attempt has its own list.
C20_Witness ==
    /\ last.op = "student_response"
    /\ phase = "source_loop"
    /\ Len(GetEvidence(session_data, Key(source_index, skill_index))) = 2
    /\ Cardinality(DOMAIN session_data.skill_evidence) = 2

\* s is a prefix of t.
IsPrefix(s, t) == Len(s) <= Len(t) /\ SubSeq(t, 1, Len(s)) = s

\* C21: evidence is append-only and local to the active skill-attempt: every
\* step leaves each evidence list as it was or longer at its end, changes no
\* list but that of the current (source_index, skill_index), creates no key
\* but that one, and in every state no key after the current indices in
\* lexicographic order exists.
C21_EvidenceAppendOnlyAndLocal ==
    /\ [](\A key \in DOMAIN session_data.skill_evidence :
              LexLeq(key[1], key[2], source_index, skill_index))
    /\ [][ /\ \A key \in DOMAIN session_data.skill_evidence :
                  /\ key \in DOMAIN session_data'.skill_evidence
                  /\ IsPrefix(session_data.skill_evidence[key],
                              session_data'.skill_evidence[key])
                  /\ (key # Key(source_index, skill_index)
                      => session_data'.skill_evidence[key]
                             = session_data.skill_evidence[key])
           /\ \A key \in DOMAIN session_data'.skill_evidence :
                  key \notin DOMAIN session_data.skill_evidence
                  => key = Key(source_index, skill_index) ]_vars

\* C21's case: in the second skill-attempt of a session, with evidence under
\* both keys, an advance has been refused.
C21_Witness ==
    /\ last.op = "advance_phase"
    /\ last.result = "blocked"
    /\ Cardinality(DOMAIN session_data.skill_evidence) = 2
    /\ \A key \in DOMAIN session_data.skill_evidence :
           session_data.skill_evidence[key] # <<>>

\* The transition entries (no student input) tagged with the given indices.
TransitionEntries(msgs, s, k) ==
    { i \in 1..Len(msgs) :
        /\ ~msgs[i].message.present
        /\ msgs[i].phase = "source_loop"
        /\ msgs[i].source_index = s
        /\ msgs[i].skill_index = k }

\* The entries from the most recent of those on; all of them if there is none.
SinceMostRecentTransition(msgs, s, k) ==
    LET entries == TransitionEntries(msgs, s, k)
    IN  IF entries = {} THEN msgs
        ELSE SubSeq(msgs, CHOOSE i \in entries : \A j \in entries : j <= i, Len(msgs))

C23_BlockedGuidanceFullWindow ==
    [][ (phase = "source_loop" /\ last'.op = "advance_phase"
         /\ last'.result = "blocked")
        => /\ Len(last'.generation_calls) = 1
           /\ last'.generation_calls[1].messages_history = OpenAIFormat(messages) ]_vars

\* C23's case: an advance was refused in a later skill-attempt, and its
\* guidance turn got more than the entries of that attempt.
C23_Witness ==
    /\ last.op = "advance_phase"
    /\ last.result = "blocked"
    /\ <<source_index, skill_index>> # <<0, 0>>
    /\ Len(last.generation_calls[1].messages_history) >
           Len(OpenAIFormat(SinceMostRecentTransition(
                   SubSeq(messages, 1, Len(messages) - 1), source_index, skill_index)))

\* C24: questions_asked_this_skill is 0 at the start of every skill-attempt:
\* right after the intro -> source_loop transition and right after every
\* permitted advance_phase that enters the next skill-attempt.
C24_CounterZeroAtAttemptStart ==
    [][ /\ (phase = "intro" /\ last'.op = "advance_phase")
           => questions_asked_this_skill' = 0
        /\ (phase = "source_loop" /\ ~Terminal /\ MasteredAdvance(last'))
           => questions_asked_this_skill' = 0
        /\ (<<phase', source_index', skill_index'>> # <<phase, source_index, skill_index>>
            /\ phase' = "source_loop")
           => questions_asked_this_skill' = 0 ]_vars

\* C24's case: the second source has been entered after a dialogue in which
\* every reply of the first skill-attempt asked a question.
C24_Witness ==
    /\ last.op = "advance_phase"
    /\ last.result = "advanced"
    /\ source_index = 1
    /\ questions_asked_this_skill = 0
    /\ \E i \in 1..Len(messages) :
           /\ messages[i].message.present
           /\ messages[i].phase = "intro"
           /\ HasQuestionMark(messages[i].response)

\* 1 for an output with a question mark, 0 for one without.
QuestionsIn(output) == IF HasQuestionMark(output) THEN 1 ELSE 0

\* C25: in phase source_loop every turn whose generated output contains a
\* question mark raises questions_asked_this_skill by exactly 1, and a turn
\* whose output contains none leaves it unchanged: a content turn and the
\* guidance turn of a blocked advance count on from the counter as it was, a
\* transition turn counts on from the 0 of the new skill-attempt.
C25_EveryQuestionCounted ==
    [][ /\ (phase = "source_loop" /\ last'.result \in {"ok", "blocked"})
           => questions_asked_this_skill' =
                  questions_asked_this_skill + QuestionsIn(last'.response.ai_message)
        /\ last'.result \in {"begin", "advanced"}
           => questions_asked_this_skill' = QuestionsIn(last'.response.ai_message) ]_vars

\* C26: the session context holds the wrap-up guidance exactly when it is
\* built in phase source_loop, not for a transition, with
\* questions_asked_this_skill >= 4 (the contexts of content turns and of
\* blocked-advance guidance turns), and never when it is built for a
\* transition turn.
C26_WrapUpExactlyAtThreshold ==
    [][ /\ (last'.op = "student_response" \/ last'.result = "blocked")
           => \A i \in DOMAIN last'.generation_calls :
                  last'.generation_calls[i].session_context.wrap_up
                  <=> (phase = "source_loop"
                       /\ questions_asked_this_skill >= WrapUpThreshold)
        /\ last'.result \in {"begin", "advanced"}
           => \A i \in DOMAIN last'.generation_calls :
                  ~last'.generation_calls[i].session_context.wrap_up ]_vars

\* The call was a system-initiated turn: the welcome of start_session, or the
\* introduction of a begin or of a permitted advance.
SystemInitiated(obs) ==
    \/ obs.op = "start_session"
    \/ obs.op = "advance_phase" /\ obs.result \in {"begin", "advanced"}

\* C27: a transcript entry has no student input (null) if and only if a
\* system-initiated turn created it; the entries created by student_response
\* (an empty utterance included) and by a blocked advance_phase carry a
\* present student input, so the windower never takes them for the
\* introduction of a skill-attempt.
C27_AbsentInputIffSystemTurn ==
    /\ [](\A i \in SkillStartMatches(session_data, messages) :
              ~messages[i].message.present)
    /\ [][ /\ Len(messages') <= Len(messages) + 1
           /\ SubSeq(messages', 1, Len(messages)) = messages
           /\ Len(messages') = Len(messages) + 1
              => /\ ~messages'[Len(messages')].message.present
                        <=> SystemInitiated(last')
                 /\ messages'[Len(messages')].message.present
                        <=> (last'.op = "student_response" \/ last'.result = "blocked")
                 /\ messages'[Len(messages')].message.present
                        => Len(messages') \notin
                               SkillStartMatches(session_data', messages') ]_vars

\* C27's case: a content turn with an empty utterance has been stored in
\* source_loop, with a present but empty student input.
C27_Witness ==
    /\ last.op = "student_response"
    /\ phase = "source_loop"
    /\ messages[Len(messages)].message = SomeMessage(<<>>)

\* C28: every transcript entry, whichever operation creates it, is tagged
\* with the phase, the source_index and the skill_index that the session has
\* when the entry is created.
C28_EntriesTaggedWithSessionPosition ==
    [][ Len(messages') = Len(messages) + 1
        => /\ messages'[Len(messages')].phase = phase'
           /\ messages'[Len(messages')].source_index = source_index'
           /\ messages'[Len(messages')].skill_index = skill_index' ]_vars

\* The session contexts the Context Composer composes for a call: from the
\* session as the call finds it or as it leaves it, for a transition or not.
ComposedContexts(before, after) ==
    { build_session_context(sd, is_phase_transition) :
          sd \in {before, after}, is_phase_transition \in BOOLEAN }

\* C29: the input of every generation call is determined by the composed
\* session context (assignment, phase, indices, question counter, transition
\* flag) and the History Windower's sequence alone: its context is the one
\* the Context Composer composes from the session, with nothing of any other
\* state, such as the Mastery Gate's reasoning, added to it, and its history
\* is empty or a window of the transcript (followed, in a content turn, by
\* the utterance).
C29_GenerationInputFromContextAndWindow ==
    [][ \A i \in DOMAIN last'.generation_calls :
            /\ last'.generation_calls[i].session_context
                   \in ComposedContexts(session_data, session_data')
            /\ last'.op # "student_response"
               => last'.generation_calls[i].messages_history
                      \in {<<>>, build_conversation_history(session_data, messages, FALSE),
                           build_conversation_history(session_data, messages, TRUE)} ]_vars

\* The judgment collaborator was asked and failed: its payload did not parse,
\* or parsed to something that is not a verdict.
JudgmentFailed(obs) ==
    /\ obs.op = "advance_phase"
    /\ obs.gate # <<>>
    /\ obs.gate[1].result.judge_prompts # <<>>
    /\ \/ obs.gate[1].result.raised
       \/ obs.gate[1].result.reasoning = MalformedVerdict.reasoning

\* C30: if the judgment collaborator fails during advance_phase (a malformed
\* or unparseable verdict), the failure propagates (no response is returned)
\* and phase, indices, evidence, question counter and transcript are left
\* exactly as they were before the call.
C30_JudgmentFailureChangesNothing ==
    [][ JudgmentFailed(last')
        => /\ session_data' = session_data
           /\ messages' = messages
           /\ last'.response = NoResponse
           /\ last'.generation_calls = <<>> ]_vars

\* C31: a mastered skill never deadlocks: on an assignment with at least one
\* source and one skill, if the student keeps submitting non-empty utterances
\* and requesting the advance, the gate eventually says mastered for each
\* skill-attempt and the collaborators do not fail, the session eventually
\* reaches phase = complete.
C31_EventuallyComplete == <>(phase = "complete")

\* C31's case: a session over two sources and two skills is complete, after
\* an advance was refused on the way.
C31_Witness ==
    /\ phase = "complete"
    /\ Len(sources) = 2
    /\ Len(skills) = 2
    /\ Refusals > 0

\* The place of skill-attempt (s, k) in the lexicographic order, from 0.
Rank(s, k) == s * Len(skills) + k

\* The step is an advance_phase call in source_loop that the gate permitted.
PermittedAdvanceStep == phase = "source_loop" /\ MasteredAdvance(last')

\* The transcript holds at most one transition entry per skill-attempt.
OneTransitionEntryPerKey ==
    \A i, j \in 1..Len(messages) :
        /\ ~messages[i].message.present
        /\ ~messages[j].message.present
        /\ messages[i].phase = "source_loop"
        /\ messages[j].phase = "source_loop"
        /\ messages[i].source_index = messages[j].source_index
        /\ messages[i].skill_index = messages[j].skill_index
        => i = j

\* The begin enters the attempt of rank 0, every permitted advance moves to
\* the attempt of the next rank or, from rank sources x skills - 1 and only
\* from there, to complete, and no other step moves the session to another
\* attempt or to complete.
VisitsInOrder ==
    /\ phase = "intro" /\ phase' # "intro"
       => phase' = "source_loop" /\ Rank(source_index', skill_index') = 0
    /\ PermittedAdvanceStep
       => IF Rank(source_index, skill_index) + 1 = Len(sources) * Len(skills)
          THEN phase' = "complete"
          ELSE /\ phase' = "source_loop"
               /\ Rank(source_index', skill_index')
                      = Rank(source_index, skill_index) + 1
               /\ skill_index' < Len(skills)
    /\ phase = "source_loop" /\ ~PermittedAdvanceStep
       => /\ phase' = "source_loop"
          /\ source_index' = source_index
          /\ skill_index' = skill_index
    /\ phase = "complete" => phase' = "complete"

\* C32: served one at a time, the operations visit the skill-attempts exactly
\* once each in lexicographic order: the transcript holds at most one
\* transition entry per (source_index, skill_index) key, and the session
\* reaches complete after exactly (number of sources x number of skills)
\* permitted advance_phase calls in source_loop (every permitted advance is
\* one step in the order, and the step from the last rank is the only one
\* into complete).
C32_EachAttemptVisitedOnce ==
    []OneTransitionEntryPerKey /\ [][VisitsInOrder]_vars

\* C32 on an assignment with at least one source and one skill.
C32_OnNonEmptyAssignment ==
    /\ [](sources # <<>> /\ skills # <<>> => OneTransitionEntryPerKey)
    /\ [][sources # <<>> /\ skills # <<>> => VisitsInOrder]_vars

\* C32's case: a session over two sources and two skills is complete and its
\* transcript holds the transition entry of each of the four skill-attempts.
C32_Witness ==
    /\ phase = "complete"
    /\ Len(sources) = 2
    /\ Len(skills) = 2
    /\ \A s \in 0..1, k \in 0..1 : TransitionEntries(messages, s, k) # {}

\* The session has been in source_loop at skill-attempt key: the session is
\* past the intro and key is the current attempt or one before it in the
\* order of the visits.
Entered(key) ==
    /\ phase # "intro"
    /\ key[1] \in 0..source_index
    /\ key[2] >= 0
    /\ LexLeq(key[1], key[2], source_index, skill_index)
    /\ key[2] < Len(skills) \/ key = <<0, 0>>

\* C33: utterances that do not count as evidence cannot unlock advancement:
\* a student_response in phase intro or complete, or one whose text is empty
\* after trimming, leaves every evidence list unchanged, so that no evidence
\* list ever contains an empty string and evidence exists only for
\* skill-attempts entered in source_loop.
C33_OnlyCountedUtterancesAreEvidence ==
    /\ [](\A key \in DOMAIN session_data.skill_evidence :
              /\ Entered(key)
              /\ \A i \in 1..Len(session_data.skill_evidence[key]) :
                     session_data.skill_evidence[key][i] # <<>>)
    /\ [][ (/\ last'.op = "student_response"
            /\ phase \in {"intro", "complete"} \/ Utterance(last') = <<>>)
           => session_data'.skill_evidence = session_data.skill_evidence ]_vars

\* C33's case: a completed session with recorded evidence has served a
\* content turn with a non-empty utterance.
C33_Witness ==
    /\ last.op = "student_response"
    /\ phase = "complete"
    /\ messages[Len(messages)].phase = "complete"
    /\ Truthy(messages[Len(messages)].message)
    /\ DOMAIN session_data.skill_evidence # {}

\* C33's case: a content turn with a blank utterance has been served in a
\* skill-attempt that has evidence.
C33_WitnessBlank ==
    /\ last.op = "student_response"
    /\ phase = "source_loop"
    /\ messages[Len(messages)].message = SomeMessage(<<>>)
    /\ GetEvidence(session_data, Key(source_index, skill_index)) # <<>>

====
